---- MODULE Spec2Model ----
(***************************************************************************)
(* ActivityTracker (src/activity-tracker.js): the session lifecycle, the   *)
(* activity log, the derived counters and their persistence in             *)
(* localStorage, as a state machine.                                       *)
(*                                                                         *)
(* One step is one event handler run to completion (the page is single     *)
(* threaded): a page load constructing the tracker, a click, a submit, a   *)
(* scroll event arming the debounce timer, the timer firing, or time       *)
(* passing.  The wall clock never goes backwards.  A handler reads the     *)
(* clock several times; the model lets a millisecond pass between the    *)
(* creation of a record and the saveSession that follows it.               *)
(***************************************************************************)
EXTENDS Integers, Sequences, FiniteSets, TLC

\* ------------------------------------------------------------- constants

\* this.sessionTimeout = 60 * 60 * 1000
sessionTimeout == 3600000

\* the delay of the scroll debounce timer
scrollDelay == 500

\* startStatsUpdater: setInterval(..., 30000)
statsInterval == 30000

\* milliseconds in a day, the split toISOString makes between date and time
msPerDay == 86400000

\* ---------------------------------------------------------------- bounds

\* the clock when the model starts
InitialNow == 1000

\* clock advances (time passing between or inside handlers) in one behaviour
\* in which every write to localStorage succeeds
MaxTicks == 2

\* clock advances in one behaviour in which writes to localStorage may fail
MaxTicksQuota == 1

\* clock advances in one behaviour in which the timeline panel is used
MaxTicksWidget == 1

\* clock advances in one behaviour of two page contexts
MaxTicksTabs == 1

\* records in the log of a session shared by two page contexts
MaxActivitiesTabs == 2

\* milliseconds that may pass inside one handler, between the creation of a
\* record and the saveSession after it
Lags == {0, 1}

\* longest activity log
MaxActivities == 3

\* writes to localStorage that fail in one behaviour
MaxFailures == 1

\* the page contexts sharing the storage key; Spec runs the first alone
Tabs == {"A", "B"}

\* how long the clock may jump between two handlers
Deltas == {1, scrollDelay, sessionTimeout}

\* Math.random().toString(36).substring(2, 8): the suffix of a session id
Randoms == {"k3x9qa"}

\* window.location.pathname, split at '/'
Pathnames == {<<"", "">>}

\* textContent of the .btn-primary buttons of the pages
ButtonTexts == {"Buy"}

\* the id attribute of the forms of the pages ("" when the form has none)
FormIds == {"signup"}

\* document.documentElement.scrollHeight, window.innerHeight, window.scrollY
DocHeights == {600, 1000}
InnerHeights == {600}
ScrollYs == {168, 600}

\* how a handler's writes to localStorage end: all succeed, the first
\* setItem throws (quota exceeded), or the second does
WriteOutcomes == {"ok", "fail1", "fail2"}

VARIABLES
    now,            \* the wall clock, ms
    ticksLeft,      \* clock advances the behaviour may still make
    failuresLeft,   \* writes to localStorage that may still fail
    stored,         \* localStorage[storageKey]
    alive,          \* alive[i]: the constructor of tab i's tracker completed
    sessionData,    \* sessionData[i]: this.sessionData of tab i's tracker
    timers,         \* timers[i]: the pending timers of tab i's page context
    scrollTimeout,  \* scrollTimeout[i]: the timer the scroll listener's variable
                    \* names while that timer is pending, 0 otherwise
    widget,         \* widget[i]: whether tab i's timeline panel is expanded,
                    \* and the minutes its #stat-duration element shows
    computed,       \* the last result of updateSessionDuration, and the
                    \* session it was computed for
    lastOp          \* the step taken last: the handler, whether it threw, for
                    \* a page load what it found in localStorage, and for a
                    \* scroll event whether a timer was pending

vars == <<now, ticksLeft, failuresLeft, stored, alive, sessionData, timers, scrollTimeout,
          widget, computed, lastOp>>

\* ----------------------------------------------------- dates and storage

\* new Date(t).toISOString(): date and time of day, to the millisecond
toISOString(t) == [day |-> t \div msPerDay, ms |-> t % msPerDay]

\* new Date(iso).getTime()
getTime(iso) == iso.day * msPerDay + iso.ms

\* localStorage.getItem on a key never set
NoItem == [kind |-> "absent"]

\* JSON.stringify(value)
JSONstringify(v) == [kind |-> "json", val |-> [t |-> "obj", o |-> v]]

\* this.sessionData of a tab without a tracker
NoSession == [none |-> TRUE]

\* what localStorage may hold under the key before the first page load:
\* nothing, or text some other writer left there
InitialItems ==
    { NoItem,
      [kind |-> "empty"],
      [kind |-> "garbage"],
      [kind |-> "json", val |-> [t |-> "null"]],
      [kind |-> "json", val |-> [t |-> "obj", o |-> [theme |-> "dark"]]],
      [kind |-> "json", val |-> [t |-> "obj",
          o |-> [lastActivity |-> toISOString(InitialNow)]]],
      [kind |-> "json", val |-> [t |-> "obj",
          o |-> [lastActivity |-> toISOString(InitialNow), activities |-> <<>>]]] }

\* the properties of the object createNewSession builds
SessionKeys == {"sessionId", "startTime", "lastActivity", "activities", "stats"}

\* the item is the text of a session object
IsSession(item) ==
    /\ item.kind = "json"
    /\ item.val.t = "obj"
    /\ SessionKeys \subseteq DOMAIN item.val.o

\* what a page load finds in localStorage at time t: nothing, text that is
\* no session, or a session whose last activity is or is not an hour old
ItemCase(item, t) ==
    IF item.kind \in {"absent", "empty"} THEN "absent"
    ELSE IF ~IsSession(item) THEN "malformed"
    ELSE IF t - getTime(item.val.o.lastActivity) >= sessionTimeout THEN "expired"
    ELSE "live"

\* `if (stored)`: null and the empty string are falsy
Truthy(item) == item.kind \notin {"absent", "empty"}

\* the end of a handler: this.sessionData, the stored item, whether an
\* exception left the handler, and whether setItem raised one
Outcome(s, item, threw, quota) ==
    [sessionData |-> s, stored |-> item, threw |-> threw, quota |-> quota]

\* ------------------------------------------------------------- the class

\* createNewSession(), the clock reading t
createNewSession(t, random) ==
    [ sessionId    |-> [timestamp |-> t, random |-> random],
      startTime    |-> toISOString(t),
      lastActivity |-> toISOString(t),
      activities   |-> <<>>,
      stats        |-> [pagesViewed |-> 0, totalClicks |-> 0, formsSubmitted |-> 0] ]

\* saveSession catching what setItem throws
saveSessionSwallows(s, item, t, writeOk) ==
    LET s1 == [s EXCEPT !.lastActivity = toISOString(t)]
    IN  IF writeOk THEN Outcome(s1, JSONstringify(s1), FALSE, FALSE)
                   ELSE Outcome(s1, item, FALSE, TRUE)

\* saveSession stamping startTime where it should stamp lastActivity
saveSessionStampsStart(s, item, t, writeOk) ==
    LET s1 == [s EXCEPT !.startTime = toISOString(t)]
    IN  IF writeOk THEN Outcome(s1, JSONstringify(s1), FALSE, FALSE)
                   ELSE Outcome(s1, item, TRUE, TRUE)

\* saveSession writing the item before it stamps lastActivity
saveSessionStampsAfter(s, item, t, writeOk) ==
    LET s1 == [s EXCEPT !.lastActivity = toISOString(t)]
    IN  IF writeOk THEN Outcome(s1, JSONstringify(s), FALSE, FALSE)
                   ELSE Outcome(s, item, TRUE, TRUE)

\* saveSession writing the session without stamping lastActivity
saveSessionKeepsStamp(s, item, t, writeOk) ==
    IF writeOk THEN Outcome(s, JSONstringify(s), FALSE, FALSE)
               ELSE Outcome(s, item, TRUE, TRUE)

\* saveSession merging with the stored log: it stores the stored records
\* followed by its own that are not among them, with its own stats
saveSessionMerges(s, item, t, writeOk) ==
    LET s1  == [s EXCEPT !.lastActivity = toISOString(t)]
        had == IF item.kind = "json" /\ item.val.t = "obj"
                  /\ "activities" \in DOMAIN item.val.o
               THEN item.val.o.activities ELSE <<>>
        new == SelectSeq(s1.activities,
                         LAMBDA a : \A k \in 1..Len(had) : had[k] # a)
    IN  IF writeOk
        THEN Outcome(s1, JSONstringify([s1 EXCEPT !.activities = had \o new]),
                     FALSE, FALSE)
        ELSE Outcome(s1, item, TRUE, TRUE)

\* saveSession(), the clock reading t; setItem throws when writeOk is false
saveSession(s, item, t, writeOk) ==
    LET s1 == [s EXCEPT !.lastActivity = toISOString(t)]
    IN  IF writeOk THEN Outcome(s1, JSONstringify(s1), FALSE, FALSE)
                   ELSE Outcome(s1, item, TRUE, TRUE)

\* window.location.pathname.split('/').pop() || 'index.html'
pageName(pathname) ==
    IF pathname[Len(pathname)] = "" THEN "index.html" ELSE pathname[Len(pathname)]

\* the record trackPageView builds
PageViewActivity(pathname, t) ==
    [ type      |-> "pageview",
      timestamp |-> toISOString(t),
      details   |-> [page |-> pageName(pathname), scrollPercentage |-> 0] ]

\* the record trackClick builds
ClickActivity(elementText, t) ==
    [ type      |-> "interaction",
      timestamp |-> toISOString(t),
      details   |-> [action |-> "click", element |-> elementText] ]

\* the record trackFormSubmit builds
SubmitActivity(formId, t) ==
    [ type      |-> "interaction",
      timestamp |-> toISOString(t),
      details   |-> [action |-> "submit", form |-> formId] ]

\* trackPageView putting the record at the head of the log (unshift)
trackPageViewUnshift(s, item, pathname, t, t2, writeOk) ==
    IF "activities" \notin DOMAIN s THEN Outcome(s, item, TRUE, FALSE)
    ELSE LET s1 == [s EXCEPT !.activities = <<PageViewActivity(pathname, t)>> \o @]
         IN  IF "stats" \notin DOMAIN s1 THEN Outcome(s1, item, TRUE, FALSE)
             ELSE saveSession([s1 EXCEPT !.stats.pagesViewed = @ + 1],
                              item, t2, writeOk)

\* trackPageView(): the record is stamped at t, saveSession reads the clock
\* at t2.  A resumed object without activities or stats raises a TypeError.
trackPageView(s, item, pathname, t, t2, writeOk) ==
    IF "activities" \notin DOMAIN s THEN Outcome(s, item, TRUE, FALSE)
    ELSE LET s1 == [s EXCEPT !.activities = Append(@, PageViewActivity(pathname, t))]
         IN  IF "stats" \notin DOMAIN s1 THEN Outcome(s1, item, TRUE, FALSE)
             ELSE saveSession([s1 EXCEPT !.stats.pagesViewed = @ + 1],
                              item, t2, writeOk)

\* trackClick checking the timeout, and starting a new session past it
trackClickExpires(s, item, elementText, t, t2, writeOk) ==
    LET s0 == IF t - getTime(s.lastActivity) < sessionTimeout
              THEN s ELSE createNewSession(t, "k3x9qa")
        s1 == [s0 EXCEPT !.activities = Append(@, ClickActivity(elementText, t))]
    IN  saveSession([s1 EXCEPT !.stats.totalClicks = @ + 1], item, t2, writeOk)

\* trackClick counting the click as a submitted form
trackClickCountsForm(s, item, elementText, t, t2, writeOk) ==
    LET s1 == [s EXCEPT !.activities = Append(@, ClickActivity(elementText, t))]
    IN  saveSession([s1 EXCEPT !.stats.formsSubmitted = @ + 1], item, t2, writeOk)

\* trackClick saving first and recording the click afterwards
trackClickSavesFirst(s, item, elementText, t, t2, writeOk) ==
    LET r  == saveSession(s, item, t2, writeOk)
        s1 == [r.sessionData EXCEPT !.activities = Append(@, ClickActivity(elementText, t))]
    IN  IF r.threw THEN r
        ELSE Outcome([s1 EXCEPT !.stats.totalClicks = @ + 1], r.stored, FALSE, FALSE)

\* trackClick(elementText), up to saveSession (the rest redraws the widget)
trackClick(s, item, elementText, t, t2, writeOk) ==
    LET s1 == [s EXCEPT !.activities = Append(@, ClickActivity(elementText, t))]
    IN  saveSession([s1 EXCEPT !.stats.totalClicks = @ + 1], item, t2, writeOk)

\* trackFormSubmit counting the submission as a click as well
trackFormSubmitCountsClick(s, item, formId, t, t2, writeOk) ==
    LET s1 == [s EXCEPT !.activities = Append(@, SubmitActivity(formId, t))]
    IN  saveSession([s1 EXCEPT !.stats.formsSubmitted = @ + 1,
                               !.stats.totalClicks = @ + 1], item, t2, writeOk)

\* trackFormSubmit(formId), up to saveSession
trackFormSubmit(s, item, formId, t, t2, writeOk) ==
    LET s1 == [s EXCEPT !.activities = Append(@, SubmitActivity(formId, t))]
    IN  saveSession([s1 EXCEPT !.stats.formsSubmitted = @ + 1], item, t2, writeOk)

\* Math.round(x / y * 100) for y > 0: halves round towards +infinity
RoundPercent(x, y) == (200 * x + y) \div (2 * y)

\* the percentage updateScrollPercentage computes
percentage(docHeight, innerHeight, scrolled) ==
    LET scrollHeight == docHeight - innerHeight
    IN  IF scrollHeight > 0 THEN RoundPercent(scrolled, scrollHeight) ELSE 0

\* the index a forward loop would stop at: the first page view
FirstPageView(activities) ==
    LET idx == {k \in 1..Len(activities) : activities[k].type = "pageview"}
    IN  IF idx = {} THEN 0 ELSE CHOOSE k \in idx : \A j \in idx : k <= j

\* the index the backward loop of updateScrollPercentage stops at, 0 if none
LastPageView(activities) ==
    LET idx == {k \in 1..Len(activities) : activities[k].type = "pageview"}
    IN  IF idx = {} THEN 0 ELSE CHOOSE k \in idx : \A j \in idx : j <= k

\* updateScrollPercentage without its saveSession
updateScrollPercentageUnsaved(s, item, docHeight, innerHeight, scrolled, t, writeOk) ==
    LET i == LastPageView(s.activities)
    IN  IF i = 0 THEN Outcome(s, item, FALSE, FALSE)
        ELSE Outcome([s EXCEPT !.activities[i].details.scrollPercentage =
                                   percentage(docHeight, innerHeight, scrolled)],
                     item, FALSE, FALSE)

\* updateScrollPercentage calling saveSession whether or not it found a
\* page view
updateScrollPercentageAlwaysSaves(s, item, docHeight, innerHeight, scrolled, t, writeOk) ==
    LET i == LastPageView(s.activities)
    IN  saveSession(
            IF i = 0 THEN s
            ELSE [s EXCEPT !.activities[i].details.scrollPercentage =
                               percentage(docHeight, innerHeight, scrolled)],
            item, t, writeOk)

\* updateScrollPercentage(), saveSession reading the clock at t
updateScrollPercentage(s, item, docHeight, innerHeight, scrolled, t, writeOk) ==
    LET i == LastPageView(s.activities)
    IN  IF i = 0 THEN Outcome(s, item, FALSE, FALSE)
        ELSE saveSession(
                 [s EXCEPT !.activities[i].details.scrollPercentage =
                               percentage(docHeight, innerHeight, scrolled)],
                 item, t, writeOk)

\* the comparison with <= : a session exactly an hour old is resumed
WithinTimeoutInclusive(data, t) ==
    /\ "lastActivity" \in DOMAIN data
    /\ t - getTime(data.lastActivity) <= sessionTimeout

\* the comparison turned around: a session is resumed once it has expired
WithinTimeoutInverted(data, t) ==
    /\ "lastActivity" \in DOMAIN data
    /\ t - getTime(data.lastActivity) > sessionTimeout

\* `now - lastActivity < this.sessionTimeout`; a missing lastActivity gives
\* NaN, and every comparison with NaN is false
WithinTimeout(data, t) ==
    /\ "lastActivity" \in DOMAIN data
    /\ t - getTime(data.lastActivity) < sessionTimeout

\* the session initializeSession starts from, before its page view: the
\* stored one with lastActivity refreshed, or a new one
LoadedSession(data, t, random) ==
    IF WithinTimeout(data, t)
    THEN [data EXCEPT !.lastActivity = toISOString(t)]
    ELSE createNewSession(t, random)

\* initializeSession recording a page view for a new session only: a
\* resumed session that has its log and its stats is saved as it was loaded
initializeSessionViewsOnce(item, pathname, random, t, t2, write) ==
    IF Truthy(item) /\ item.kind = "garbage" THEN Outcome(NoSession, item, TRUE, FALSE)
    ELSE IF Truthy(item) /\ item.val.t = "null" THEN Outcome(NoSession, item, TRUE, FALSE)
    ELSE LET resumed == /\ Truthy(item)
                        /\ WithinTimeout(item.val.o, t)
                        /\ {"activities", "stats"} \subseteq DOMAIN item.val.o
             s0 == IF Truthy(item) THEN LoadedSession(item.val.o, t, random)
                                   ELSE createNewSession(t, random)
             r1 == IF resumed THEN Outcome(s0, item, FALSE, FALSE)
                   ELSE trackPageView(s0, item, pathname, t, t2, write # "fail1")
         IN  IF r1.threw THEN r1
             ELSE saveSession(r1.sessionData, r1.stored, t2, write = "ok")

\* initializeSession(): Date.now() gives t, the two saveSession calls read
\* the clock at t2.  JSON.parse throws on text that is no JSON, and reading
\* data.lastActivity throws when the text is `null`.
initializeSession(item, pathname, random, t, t2, write) ==
    IF Truthy(item) /\ item.kind = "garbage" THEN Outcome(NoSession, item, TRUE, FALSE)
    ELSE IF Truthy(item) /\ item.val.t = "null" THEN Outcome(NoSession, item, TRUE, FALSE)
    ELSE LET s0 == IF Truthy(item) THEN LoadedSession(item.val.o, t, random)
                                   ELSE createNewSession(t, random)
             r1 == trackPageView(s0, item, pathname, t, t2, write # "fail1")
         IN  IF r1.threw THEN r1
             ELSE saveSession(r1.sessionData, r1.stored, t2, write = "ok")

\* ----------------------------------------------------------- the machine

\* renderWidget(): the panel is not expanded, and buildTimelineHTML writes
\* "0 min" into #stat-duration
Rendered == [expanded |-> FALSE, statDuration |-> 0]

\* no duration has been computed yet
NoneComputed == [sessionId |-> [timestamp |-> 0, random |-> ""], minutes |-> 0]

\* updateSessionDuration rounding to the nearest minute
durationMinutesRounded(s, t) ==
    RoundPercent(t - getTime(s.startTime), 100 * (1000 * 60))

\* updateSessionDuration(): Math.floor((now - startTime) / (1000 * 60))
durationMinutes(s, t) == (t - getTime(s.startTime)) \div (1000 * 60)

\* updateSessionDuration() of tab i's tracker, Date.now() reading t
updateSessionDuration(i, s, t) ==
    /\ widget' = [widget EXCEPT ![i].statDuration = durationMinutes(s, t)]
    /\ computed' = [sessionId |-> s.sessionId, minutes |-> durationMinutes(s, t)]

\* `if (this.widgetElement) { ...; this.updateStats(); }` at the end of
\* trackClick and trackFormSubmit, which an exception does not reach
updateStats(i, r, t) ==
    IF r.threw THEN UNCHANGED <<widget, computed>>
    ELSE updateSessionDuration(i, r.sessionData, t)

Start(maxTicks, maxFailures) ==
    /\ now = InitialNow
    /\ ticksLeft = maxTicks
    /\ failuresLeft = maxFailures
    /\ stored \in InitialItems
    /\ alive = [i \in Tabs |-> FALSE]
    /\ sessionData = [i \in Tabs |-> NoSession]
    /\ timers = [i \in Tabs |-> {}]
    /\ scrollTimeout = [i \in Tabs |-> 0]
    /\ widget = [i \in Tabs |-> Rendered]
    /\ computed = NoneComputed
    /\ lastOp = [op |-> "none", tab |-> "A", threw |-> FALSE, case |-> "none"]

\* localStorage has room: no write fails
Init == Start(MaxTicks, 0)

\* localStorage may be full: setItem may throw
InitQuota == Start(MaxTicksQuota, MaxFailures)

\* the clock readings a handler starting now may end at
Later == {now + lag : lag \in {l \in Lags : l = 0 \/ ticksLeft > 0}}

\* how the writes of a handler may end
Writes == {w \in WriteOutcomes : w = "ok" \/ failuresLeft > 0}

\* how the one write of a handler may end
WriteOk == {w = "ok" : w \in Writes \ {"fail2"}}

\* what every handler leaves behind: the clock, the failed writes, and the
\* record of the step
Ran(op, i, t, r, case) ==
    /\ now' = t
    /\ ticksLeft' = IF t > now THEN ticksLeft - 1 ELSE ticksLeft
    /\ failuresLeft' = IF r.quota THEN failuresLeft - 1 ELSE failuresLeft
    /\ lastOp' = [op |-> op, tab |-> i, threw |-> r.threw, case |-> case]

\* time passes between two handlers
Tick ==
    \E d \in Deltas :
        /\ ticksLeft > 0
        /\ now' = now + d
        /\ ticksLeft' = ticksLeft - 1
        /\ lastOp' = [op |-> "tick", tab |-> "A", threw |-> FALSE, case |-> "none"]
        /\ UNCHANGED <<failuresLeft, stored, alive, sessionData, timers, scrollTimeout,
                       widget, computed>>

\* tab i loads a page: a new page context, whose script runs
\* `new ActivityTracker()`.  The previous context of the tab, its tracker and
\* its timers are gone.  When initializeSession throws, the constructor
\* throws: no widget, no listeners, window.activityTracker stays unset.
PageLoad(i) ==
    \E pathname \in Pathnames, random \in Randoms, t2 \in Later, write \in Writes :
        LET r == initializeSession(stored, pathname, random, now, t2, write)
        IN  /\ ~r.threw => Len(r.sessionData.activities) <= MaxActivities
            /\ stored' = r.stored
            /\ alive' = [alive EXCEPT ![i] = ~r.threw]
            /\ sessionData' = [sessionData EXCEPT ![i] =
                                  IF r.threw THEN NoSession ELSE r.sessionData]
            /\ timers' = [timers EXCEPT ![i] = {}]
            /\ scrollTimeout' = [scrollTimeout EXCEPT ![i] = 0]
            /\ widget' = [widget EXCEPT ![i] = Rendered]
            /\ UNCHANGED computed
            /\ Ran("load", i, t2, r, ItemCase(stored, now))

\* the document's click listener, the target inside a .btn-primary button
Click(i) ==
    \E buttonText \in ButtonTexts, t2 \in Later, writeOk \in WriteOk :
        LET r == trackClick(sessionData[i], stored, buttonText, now, t2, writeOk)
        IN  /\ alive[i]
            /\ Len(sessionData[i].activities) < MaxActivities
            /\ stored' = r.stored
            /\ sessionData' = [sessionData EXCEPT ![i] = r.sessionData]
            /\ UNCHANGED <<alive, timers, scrollTimeout>>
            /\ updateStats(i, r, t2)
            /\ Ran("click", i, t2, r, "none")

\* the document's submit listener: `e.target.id || 'unknown-form'`
Submit(i) ==
    \E id \in FormIds, t2 \in Later, writeOk \in WriteOk :
        LET formId == IF id = "" THEN "unknown-form" ELSE id
            r == trackFormSubmit(sessionData[i], stored, formId, now, t2, writeOk)
        IN  /\ alive[i]
            /\ Len(sessionData[i].activities) < MaxActivities
            /\ stored' = r.stored
            /\ sessionData' = [sessionData EXCEPT ![i] = r.sessionData]
            /\ UNCHANGED <<alive, timers, scrollTimeout>>
            /\ updateStats(i, r, t2)
            /\ Ran("submit", i, t2, r, "none")

\* clearTimeout(id): the timer is no longer pending; an id that names no
\* pending timer changes nothing
clearTimeoutKeeps(pending, id) == pending

clearTimeout(pending, id) == {tm \in pending : tm.id # id}

\* the id setTimeout returns: one that no pending timer has
NewTimerId(pending) ==
    CHOOSE n \in 1..(Cardinality(pending) + 1) :
        /\ \A tm \in pending : tm.id # n
        /\ \A m \in 1..(n - 1) : \E tm \in pending : tm.id = m

\* setTimeout(callback, delay) at time t
setTimeout(pending, t, delay) ==
    pending \cup {[id |-> NewTimerId(pending), due |-> t + delay]}

\* the window's scroll listener: clearTimeout(scrollTimeout), then
\* scrollTimeout = setTimeout(..., 500)
Scroll(i) ==
    LET cleared == clearTimeout(timers[i], scrollTimeout[i])
    IN  /\ alive[i]
        /\ timers' = [timers EXCEPT ![i] = setTimeout(cleared, now, scrollDelay)]
        /\ scrollTimeout' = [scrollTimeout EXCEPT ![i] = NewTimerId(cleared)]
        /\ UNCHANGED <<stored, alive, sessionData, widget, computed>>
        /\ Ran("scroll", i, now, Outcome(sessionData[i], stored, FALSE, FALSE),
               IF scrollTimeout[i] # 0 THEN "rearmed" ELSE "armed")

\* the scroll timer fires, no earlier than its delay: updateScrollPercentage
\* reads the document's and the window's metrics as they are then
ScrollTimer(i) ==
    \E tm \in timers[i], docHeight \in DocHeights, innerHeight \in InnerHeights,
       scrolled \in ScrollYs, t2 \in Later, writeOk \in WriteOk :
        LET r == updateScrollPercentage(sessionData[i], stored, docHeight, innerHeight,
                                        scrolled, t2, writeOk)
        IN  /\ alive[i]
            /\ now >= tm.due
            /\ stored' = r.stored
            /\ sessionData' = [sessionData EXCEPT ![i] = r.sessionData]
            /\ timers' = [timers EXCEPT ![i] = @ \ {tm}]
            /\ scrollTimeout' = [scrollTimeout EXCEPT ![i] = IF @ = tm.id THEN 0 ELSE @]
            /\ UNCHANGED <<alive, widget, computed>>
            /\ Ran("scrollTimer", i, t2, r, "none")

\* the toggle button's click listener: the panel expands or collapses; when
\* it is then expanded, updateTimeline() and updateStats() run
Toggle(i) ==
    /\ alive[i]
    /\ IF widget[i].expanded
          THEN /\ widget' = [widget EXCEPT ![i].expanded = FALSE]
               /\ UNCHANGED computed
          ELSE /\ widget' = [widget EXCEPT ![i] =
                                 [expanded |-> TRUE,
                                  statDuration |-> durationMinutes(sessionData[i], now)]]
               /\ computed' = [sessionId |-> sessionData[i].sessionId,
                               minutes |-> durationMinutes(sessionData[i], now)]
    /\ UNCHANGED <<stored, alive, sessionData, timers, scrollTimeout>>
    /\ Ran("toggle", i, now, Outcome(sessionData[i], stored, FALSE, FALSE), "none")

\* the close button's click listener
Close(i) ==
    /\ alive[i]
    /\ widget[i].expanded
    /\ widget' = [widget EXCEPT ![i].expanded = FALSE]
    /\ UNCHANGED <<stored, alive, sessionData, timers, scrollTimeout, computed>>
    /\ Ran("close", i, now, Outcome(sessionData[i], stored, FALSE, FALSE), "none")

\* statsInterval ms pass and the callback of startStatsUpdater's setInterval
\* runs: updateSessionDuration() when the panel is expanded
StatsUpdater(i) ==
    /\ alive[i]
    /\ ticksLeft > 0
    /\ IF widget[i].expanded
          THEN updateSessionDuration(i, sessionData[i], now + statsInterval)
          ELSE UNCHANGED <<widget, computed>>
    /\ UNCHANGED <<stored, alive, sessionData, timers, scrollTimeout>>
    /\ Ran("statsUpdater", i, now + statsInterval,
           Outcome(sessionData[i], stored, FALSE, FALSE), "none")

\* one page context
Next ==
    \/ Tick
    \/ PageLoad("A")
    \/ Click("A")
    \/ Submit("A")
    \/ Scroll("A")
    \/ ScrollTimer("A")

Spec == Init /\ [][Next]_vars

SpecQuota == InitQuota /\ [][Next]_vars

\* one page context, the user opening and closing the timeline panel
NextWidget ==
    \/ Next
    \/ Toggle("A")
    \/ Close("A")
    \/ StatsUpdater("A")

InitWidget == Start(MaxTicksWidget, 0)

SpecWidget == InitWidget /\ [][NextWidget]_vars


\* sessions whose log holds no page view, as a caller of
\* updateScrollPercentage may hand them to it: a new session, then a click,
\* then a submission
BareSessions ==
    LET s0 == createNewSession(InitialNow, "k3x9qa")
        s1 == trackClick(s0, NoItem, "Buy", InitialNow, InitialNow, TRUE).sessionData
        s2 == trackFormSubmit(s1, NoItem, "signup", InitialNow, InitialNow,
                              TRUE).sessionData
    IN  {s0, s1, s2}

\* a tracker whose session has no page view, localStorage holding that
\* session, and possibly full
InitBare ==
    /\ now = InitialNow
    /\ ticksLeft = MaxTicksQuota
    /\ failuresLeft = MaxFailures
    /\ \E s \in BareSessions :
           /\ sessionData = [i \in Tabs |-> IF i = "A" THEN s ELSE NoSession]
           /\ stored = JSONstringify(s)
    /\ alive = [i \in Tabs |-> i = "A"]
    /\ timers = [i \in Tabs |-> {}]
    /\ scrollTimeout = [i \in Tabs |-> 0]
    /\ widget = [i \in Tabs |-> Rendered]
    /\ computed = NoneComputed
    /\ lastOp = [op |-> "none", tab |-> "A", threw |-> FALSE, case |-> "none"]

\* the handlers of that tracker; its page stays loaded, since a page load
\* would add a page view
NextBare ==
    \/ Tick
    \/ Click("A")
    \/ Submit("A")
    \/ Scroll("A")
    \/ ScrollTimer("A")

SpecBare == InitBare /\ [][NextBare]_vars


\* two page contexts of one origin, their handlers interleaved: both load
\* pages and take clicks, and tab A is scrolled as well
NextTabs ==
    /\ \/ Tick
       \/ \E i \in Tabs : PageLoad(i) \/ Click(i)
       \/ Scroll("A")
       \/ ScrollTimer("A")
    /\ \A i \in Tabs : alive'[i] => Len(sessionData'[i].activities) <= MaxActivitiesTabs

InitTabs == Start(MaxTicksTabs, 0)

SpecTabs == InitTabs /\ [][NextTabs]_vars

\* ------------------------------------------------------------ properties

\* this.sessionData of the tracker whose handler ran last
Current == sessionData[lastOp.tab]

\* the session the stored item holds
StoredSession == stored.val.o

IsPageView(a) == a.type = "pageview"
IsClick(a) == a.type = "interaction" /\ a.details.action = "click"
IsSubmit(a) == a.type = "interaction" /\ a.details.action = "submit"

PageViews(s) == {k \in 1..Len(s.activities) : IsPageView(s.activities[k])}
Clicks(s) == {k \in 1..Len(s.activities) : IsClick(s.activities[k])}
Submits(s) == {k \in 1..Len(s.activities) : IsSubmit(s.activities[k])}

\* the counters equal a recount of the log
Recount(s) ==
    /\ s.stats.pagesViewed = Cardinality(PageViews(s))
    /\ s.stats.totalClicks = Cardinality(Clicks(s))
    /\ s.stats.formsSubmitted = Cardinality(Submits(s))

\* C1: in every reachable state the three counters of a tracker's session
\* equal the number of page view, click and submit records in its log.
C1_StatsMatchLog == \A i \in Tabs : alive[i] => Recount(sessionData[i])

\* C1 witness: a session that has counted a page view, a click and a submit
C1_Witness ==
    /\ alive["A"]
    /\ sessionData["A"].stats = [pagesViewed |-> 1, totalClicks |-> 1, formsSubmitted |-> 1]

\* a session right after its creation and its first page view
Fresh(s) ==
    /\ Len(s.activities) = 1
    /\ IsPageView(s.activities[1])
    /\ s.activities[1].details.scrollPercentage = 0
    /\ s.stats = [pagesViewed |-> 1, totalClicks |-> 0, formsSubmitted |-> 0]

\* the step is a page load's initializeSession
Loads == lastOp'.op = "load"

\* C2: initializeSession at time now, finding no stored session or one whose
\* lastActivity is at least sessionTimeout old (the boundary included), ends
\* with a session under another sessionId whose log is one page view with
\* scrollPercentage 0, none of the stored records, and whose counters are
\* 1, 0, 0.
C2_ExpiredStartsFresh ==
    [][ Loads /\ ( \/ ~Truthy(stored)
                   \/ /\ IsSession(stored)
                      /\ now - getTime(StoredSession.lastActivity) >= sessionTimeout )
        => /\ alive'[lastOp'.tab]
           /\ Fresh(Current')
           /\ IsSession(stored) =>
                  /\ Current'.sessionId # StoredSession.sessionId
                  /\ \A k \in 1..Len(StoredSession.activities) :
                         StoredSession.activities[k] # Current'.activities[1]
      ]_vars

\* C2 witness: a page load found a session exactly sessionTimeout old and
\* started a new one
C2_Witness ==
    /\ lastOp.op = "load" /\ lastOp.case = "expired" /\ ~lastOp.threw
    /\ Fresh(Current)
    /\ Current.sessionId.timestamp = InitialNow + sessionTimeout

\* C3: initializeSession at time now, finding a stored session whose
\* lastActivity is less than sessionTimeout old, keeps its sessionId and
\* startTime, appends exactly one page view to its log, adds 1 to pagesViewed
\* and leaves the other two counters alone.
C3_LiveResumes ==
    [][ Loads /\ IsSession(stored)
              /\ now - getTime(StoredSession.lastActivity) < sessionTimeout
        => LET old == StoredSession
               n == Len(old.activities)
           IN  /\ alive'[lastOp'.tab]
               /\ Current'.sessionId = old.sessionId
               /\ Current'.startTime = old.startTime
               /\ Len(Current'.activities) = n + 1
               /\ SubSeq(Current'.activities, 1, n) = old.activities
               /\ IsPageView(Current'.activities[n + 1])
               /\ Current'.activities[n + 1].details.scrollPercentage = 0
               /\ Current'.stats = [old.stats EXCEPT !.pagesViewed = @ + 1]
      ]_vars

\* C3 witness: a page load resumed a session that had a page view and a
\* click, scrollDelay or more after the click
C3_Witness ==
    /\ lastOp.op = "load" /\ lastOp.case = "live" /\ ~lastOp.threw
    /\ Len(Current.activities) = 3
    /\ IsClick(Current.activities[2])
    /\ IsPageView(Current.activities[3])
    /\ getTime(Current.activities[3].timestamp)
           >= getTime(Current.activities[2].timestamp) + scrollDelay
    /\ Current.stats = [pagesViewed |-> 2, totalClicks |-> 1, formsSubmitted |-> 0]

\* the step is a handler of a live tracker: a click, a submit, a scroll
\* event or the scroll timer
Tracks == lastOp'.op \in {"click", "submit", "scroll", "scrollTimer"}

\* C4: between two initializations no handler ends the session, whatever
\* time has passed: a click, a submit, a scroll event and a scroll update
\* keep sessionId and startTime and drop no record of the log.
C4_NoExpiryBetweenLoads ==
    [][ Tracks =>
          LET old == sessionData[lastOp'.tab]
          IN  /\ Current'.sessionId = old.sessionId
              /\ Current'.startTime = old.startTime
              /\ Len(Current'.activities) >= Len(old.activities)
              /\ \A k \in 1..Len(old.activities) :
                     /\ Current'.activities[k].type = old.activities[k].type
                     /\ Current'.activities[k].timestamp = old.activities[k].timestamp
      ]_vars

\* C4 witness: a click recorded in the session of a page view made an hour
\* or more before it
C4_Witness ==
    /\ lastOp.op = "click" /\ ~lastOp.threw
    /\ Len(Current.activities) = 2
    /\ IsPageView(Current.activities[1])
    /\ IsClick(Current.activities[2])
    /\ getTime(Current.activities[2].timestamp)
           >= getTime(Current.activities[1].timestamp) + sessionTimeout
    /\ getTime(Current.startTime) = getTime(Current.activities[1].timestamp)

\* C5: a scroll update changes the scrollPercentage of the most recent page
\* view of the log and nothing else: the other records, the later
\* interactions among them, the length and order of the log and the counters
\* stay as they were.
C5_ScrollHitsLastPageView ==
    [][ lastOp'.op = "scrollTimer" =>
          LET old == sessionData[lastOp'.tab]
              new == Current'
          IN  /\ new.stats = old.stats
              /\ \E k \in 1..Len(old.activities) :
                     /\ IsPageView(old.activities[k])
                     /\ \A j \in (k + 1)..Len(old.activities) :
                            ~IsPageView(old.activities[j])
                     /\ new.activities =
                            [old.activities EXCEPT ![k].details.scrollPercentage =
                                 new.activities[k].details.scrollPercentage]
      ]_vars

\* C5 witness: a scroll update on a log of two page views and a later click
\* has set the second page view to 42 and left the first at 0
C5_Witness ==
    /\ lastOp.op = "scrollTimer" /\ ~lastOp.threw
    /\ Len(Current.activities) = 3
    /\ IsPageView(Current.activities[1])
    /\ IsPageView(Current.activities[2])
    /\ IsClick(Current.activities[3])
    /\ Current.activities[1].details.scrollPercentage = 0
    /\ Current.activities[2].details.scrollPercentage = 42

\* C6: while every write succeeds, the stored item is the serialization of
\* the tracker's session in every state between two handlers: after
\* initializeSession, trackClick, trackFormSubmit and a scroll update alike.
C6_StoredIsCurrent ==
    \A i \in Tabs : alive[i] => stored = JSONstringify(sessionData[i])

\* C6 witness: a scroll update has changed a record, and the stored item has
\* the change
C6_Witness ==
    /\ lastOp.op = "scrollTimer" /\ ~lastOp.threw
    /\ Current.activities[1].details.scrollPercentage = 42
    /\ IsSession(stored)
    /\ StoredSession.activities[1].details.scrollPercentage = 42

\* C7: initialization finding a malformed item (text that is no JSON, the
\* text null, an object that is no session) raises nothing and ends with a
\* fresh session.
C7_MalformedStartsFresh ==
    [][ Loads /\ ItemCase(stored, now) = "malformed"
        => /\ ~lastOp'.threw
           /\ alive'[lastOp'.tab]
           /\ Fresh(Current')
      ]_vars

\* C8: a handler whose write to localStorage fails ends with the exception
\* leaving it: the caller sees the failure, and a constructor that failed
\* leaves no tracker.
C8_WriteFailurePropagates ==
    [][ failuresLeft' < failuresLeft
        => /\ lastOp'.threw
           /\ lastOp'.op = "load" => ~alive'[lastOp'.tab]
      ]_vars

\* C8 witness: setItem failed under trackClick, and the click handler threw
C8_Witness ==
    /\ lastOp.op = "click" /\ lastOp.threw
    /\ failuresLeft < MaxFailures
    /\ IsClick(Current.activities[Len(Current.activities)])

\* C9: the scrollPercentage of every page view record is within 0..100.
C9_ScrollInRange ==
    \A i \in Tabs : alive[i] =>
        \A k \in PageViews(sessionData[i]) :
            sessionData[i].activities[k].details.scrollPercentage \in 0..100

\* C10: lastActivity of the live session is never before its startTime.
C10_LastActivityAfterStart ==
    \A i \in Tabs : alive[i] =>
        getTime(sessionData[i].lastActivity) >= getTime(sessionData[i].startTime)

\* C10 witness: a resumed session, its lastActivity an hour or more after
\* its startTime
C10_Witness ==
    /\ lastOp.op = "load" /\ lastOp.case = "live" /\ ~lastOp.threw
    /\ getTime(Current.lastActivity) >= getTime(Current.startTime) + sessionTimeout

\* the log a step starts from holds on in the log it ends with: the same
\* records at the same places, but for the scrollPercentage of the most
\* recent page view
SamePrefix(old, new) ==
    /\ Len(new) >= Len(old)
    /\ \A k \in 1..Len(old) :
           \/ new[k] = old[k]
           \/ /\ IsPageView(old[k])
              /\ \A j \in (k + 1)..Len(old) : ~IsPageView(old[j])
              /\ new[k] = [old[k] EXCEPT !.details.scrollPercentage =
                               new[k].details.scrollPercentage]

\* the timestamps of the log never decrease
Ordered(s) ==
    \A k \in 1..(Len(s.activities) - 1) :
        getTime(s.activities[k].timestamp) <= getTime(s.activities[k + 1].timestamp)

\* C11: within a session the log is append-only and in time order: every
\* handler of a live tracker, and a page load that resumes the stored
\* session, keeps the previous log as a prefix of the new one (only the
\* scrollPercentage of the most recent page view may differ), and the
\* timestamps of consecutive records never decrease.
C11_AppendOnlyInOrder ==
    [][ /\ Tracks => SamePrefix(sessionData[lastOp'.tab].activities, Current'.activities)
        /\ Loads /\ lastOp'.case = "live" /\ ~lastOp'.threw
               => SamePrefix(StoredSession.activities, Current'.activities)
        /\ alive'[lastOp'.tab] => Ordered(Current')
      ]_vars

\* C11 witness: a scroll update has changed the page view of a log whose
\* second record is later than its first
C11_Witness ==
    /\ lastOp.op = "scrollTimer" /\ ~lastOp.threw
    /\ Len(Current.activities) >= 2
    /\ Current.activities[1].details.scrollPercentage = 42
    /\ getTime(Current.activities[1].timestamp) < getTime(Current.activities[2].timestamp)

\* C12: the scroll listener cancels the pending timer and sets a new one
\* scrollDelay later, so a context never has two timers pending; the timer
\* fires no earlier than scrollDelay after the last scroll event, and
\* leaves none behind: a burst of scroll events ends in one update.
C12_ScrollDebounced ==
    [][ LET i == lastOp'.tab
        IN  /\ \A j \in Tabs : Cardinality(timers'[j]) <= 1
            /\ lastOp'.op = "scroll" =>
                   \E tm \in timers'[i] : /\ timers'[i] = {tm}
                                          /\ tm.due = now + scrollDelay
            /\ lastOp'.op = "scrollTimer" =>
                   /\ \E tm \in timers[i] : now >= tm.due
                   /\ timers'[i] = {}
            /\ lastOp'.op \in {"click", "submit", "tick"} => timers' = timers
      ]_vars

\* C12 witness: a scroll event, later than the first, found a timer pending
\* and replaced it
C12_Witness ==
    /\ lastOp.op = "scroll" /\ lastOp.case = "rearmed"
    /\ now > InitialNow
    /\ \E tm \in timers[lastOp.tab] : tm.due = now + scrollDelay
    /\ Cardinality(timers[lastOp.tab]) = 1


\* JSON.parse of the stored item, then saveSession at the present time
SavedAgain == saveSession(StoredSession, stored, now, TRUE)

Computes ==
    \/ lastOp'.op \in {"click", "submit"} /\ ~lastOp'.threw
    \/ lastOp'.op = "toggle" /\ widget'[lastOp'.tab].expanded
    \/ lastOp'.op = "statsUpdater" /\ widget[lastOp'.tab].expanded

\* C14: each computation of the session duration shows the whole minutes
\* elapsed since startTime, rounded down, and no less than the computation
\* before it showed for the same session, page reloads that resume the
\* session included.
C14_DurationFloorsAndGrows ==
    [][ LET s       == sessionData'[lastOp'.tab]
            shown   == widget'[lastOp'.tab].statDuration
            elapsed == now' - getTime(s.startTime)
        IN  Computes =>
                /\ shown * 60000 <= elapsed
                /\ elapsed < (shown + 1) * 60000
                /\ computed.sessionId = s.sessionId => shown >= computed.minutes
      ]_vars

\* C14 witness: an hour into the session the page is reloaded, the session
\* resumed, and the panel opened: 60 minutes, as computed before the reload
C14_Witness ==
    /\ lastOp.op = "toggle"
    /\ widget[lastOp.tab].expanded
    /\ widget[lastOp.tab].statDuration = 60
    /\ Len(Current.activities) = 3
    /\ IsClick(Current.activities[2])
    /\ IsPageView(Current.activities[3])
    /\ getTime(Current.startTime) < getTime(Current.activities[3].timestamp)


\* the step ran trackPageView, trackClick, trackFormSubmit, or a scroll
\* update that found a page view to write to
Touches ==
    \/ lastOp'.op \in {"load", "click", "submit"}
    \/ lastOp'.op = "scrollTimer" /\ PageViews(sessionData[lastOp'.tab]) # {}

\* C15: after a tracked event lastActivity is the clock reading of its
\* saveSession: no earlier than the timestamp of any record of the log nor
\* than lastActivity was before; and when the write went through, that is
\* the lastActivity the next page load reads from storage.
C15_TrackedEventTouches ==
    [][ LET i   == lastOp'.tab
            old == sessionData[i]
            new == sessionData'[i]
        IN  Touches /\ alive'[i] =>
                /\ getTime(new.lastActivity) = now'
                /\ \A k \in 1..Len(new.activities) :
                       getTime(new.activities[k].timestamp) <= getTime(new.lastActivity)
                /\ lastOp'.op # "load" =>
                       getTime(new.lastActivity) >= getTime(old.lastActivity)
                /\ lastOp'.op = "load" /\ lastOp'.case = "live" =>
                       getTime(new.lastActivity) >= getTime(StoredSession.lastActivity)
                /\ ~lastOp'.threw =>
                       /\ IsSession(stored')
                       /\ stored'.val.o.lastActivity = new.lastActivity
      ]_vars

\* C15 witness: a click whose record is stamped one millisecond before its
\* saveSession read the clock
C15_Witness ==
    /\ lastOp.op = "click" /\ ~lastOp.threw
    /\ Len(Current.activities) = 2
    /\ getTime(Current.lastActivity) = now
    /\ getTime(Current.activities[2].timestamp) < getTime(Current.lastActivity)
    /\ StoredSession.lastActivity = Current.lastActivity


\* the session new is old with record a appended and only the counter
\* named counter, one higher, and lastActivity changed
AppendsOne(old, new, a, counter) ==
    /\ new.activities = Append(old.activities, a)
    /\ new.stats = [old.stats EXCEPT ![counter] = @ + 1]
    /\ new.sessionId = old.sessionId
    /\ new.startTime = old.startTime
    /\ DOMAIN new = DOMAIN old

\* C16: a click appends one interaction record with action click and adds
\* one to totalClicks; a submission appends one interaction record with
\* action submit and adds one to formsSubmitted; the other counters,
\* sessionId and startTime stay as they were.
C16_ClickAndSubmitFrame ==
    [][ LET old == sessionData[lastOp'.tab]
            new == sessionData'[lastOp'.tab]
            a   == new.activities[Len(new.activities)]
        IN  /\ lastOp'.op = "click" =>
                   /\ Len(new.activities) = Len(old.activities) + 1
                   /\ IsClick(a) /\ getTime(a.timestamp) = now
                   /\ AppendsOne(old, new, a, "totalClicks")
            /\ lastOp'.op = "submit" =>
                   /\ Len(new.activities) = Len(old.activities) + 1
                   /\ IsSubmit(a) /\ getTime(a.timestamp) = now
                   /\ AppendsOne(old, new, a, "formsSubmitted")
      ]_vars

\* C16 witness: a submission after a click: one form, one click, one page
C16_Witness ==
    /\ lastOp.op = "submit"
    /\ Len(Current.activities) = 3
    /\ IsClick(Current.activities[2])
    /\ IsSubmit(Current.activities[3])
    /\ Current.stats = [pagesViewed |-> 1, totalClicks |-> 1, formsSubmitted |-> 1]


\* C17: a scroll update that finds no page view in the log throws nothing
\* and writes nothing: the session, lastActivity included, and the stored
\* item are what they were, and no write was attempted.
C17_ScrollWithoutPageView ==
    [][ lastOp'.op = "scrollTimer" /\ PageViews(sessionData[lastOp'.tab]) = {} =>
            /\ ~lastOp'.threw
            /\ sessionData' = sessionData
            /\ stored' = stored
            /\ failuresLeft' = failuresLeft
      ]_vars

\* C17 witness: the scroll timer fired on a tracker whose log holds a
\* click and no page view
C17_Witness ==
    /\ lastOp.op = "scrollTimer"
    /\ PageViews(Current) = {}
    /\ Clicks(Current) # {}
    /\ stored = JSONstringify(Current)
    /\ Current.lastActivity = toISOString(InitialNow)
    /\ now > InitialNow


\* the position of the most recent page view of a log that has one
Newest(s) == CHOOSE k \in PageViews(s) : \A j \in PageViews(s) : j <= k

\* C18: a tracker's log always holds a page view; a page load ends with
\* its own page view, stamped at the load, as the last record; no other
\* handler adds or removes a page view; so the most recent page view is the
\* current page's, and a scroll update leaves every earlier record alone.
C18_NewestPageViewIsThisLoad ==
    [][ LET i   == lastOp'.tab
            old == sessionData[i]
            new == sessionData'[i]
        IN  /\ alive'[i] => "activities" \in DOMAIN new /\ PageViews(new) # {}
            /\ Loads /\ alive'[i] =>
                   /\ Newest(new) = Len(new.activities)
                   /\ getTime(new.activities[Newest(new)].timestamp) = now
            /\ ~Loads /\ alive[i] =>
                   /\ alive'[i]
                   /\ PageViews(new) = PageViews(old)
                   /\ new.activities[Newest(new)].timestamp
                          = old.activities[Newest(old)].timestamp
            /\ lastOp'.op = "scrollTimer" =>
                   \A k \in 1..Len(old.activities) :
                       k # Newest(old) => new.activities[k] = old.activities[k]
      ]_vars

\* C18 witness: page view, click, second page load, and a scroll update
\* that wrote to the second page's record and not to the first page's
C18_Witness ==
    /\ lastOp.op = "scrollTimer"
    /\ Len(Current.activities) = 3
    /\ IsPageView(Current.activities[1])
    /\ IsClick(Current.activities[2])
    /\ IsPageView(Current.activities[3])
    /\ Current.activities[1].details.scrollPercentage = 0
    /\ Current.activities[3].details.scrollPercentage = 42


\* the step's write to localStorage failed under one of the handlers ops
FailedIn(ops) == failuresLeft' < failuresLeft /\ lastOp'.op \in ops

\* after the failed write the item is the one stored before, and the
\* tracker's session holds what the handler recorded, with stats that count
\* its log
KeptInMemory ==
    LET i   == lastOp'.tab
        old == sessionData[i]
        new == sessionData'[i]
    IN  /\ stored' = stored
        /\ alive'[i]
        /\ Recount(new)
        /\ lastOp'.op = "click" =>
               /\ IsClick(new.activities[Len(new.activities)])
               /\ AppendsOne(old, new, new.activities[Len(new.activities)], "totalClicks")
        /\ lastOp'.op = "submit" =>
               /\ IsSubmit(new.activities[Len(new.activities)])
               /\ AppendsOne(old, new, new.activities[Len(new.activities)],
                             "formsSubmitted")
        /\ lastOp'.op = "scrollTimer" =>
               /\ Len(new.activities) = Len(old.activities)
               /\ SamePrefix(old.activities, new.activities)
               /\ new.stats = old.stats
        /\ lastOp'.op = "load" =>
               /\ IsPageView(new.activities[Len(new.activities)])
               /\ getTime(new.activities[Len(new.activities)].timestamp) = now

\* a write that goes through stores every record the tracker held
PersistsLater ==
    lastOp'.op \in {"click", "submit", "scrollTimer"} /\ ~lastOp'.threw
        => /\ IsSession(stored')
           /\ SamePrefix(sessionData[lastOp'.tab].activities, stored'.val.o.activities)

\* C19 as stated: when the write of trackClick, trackFormSubmit,
\* trackPageView or a scroll update fails, the stored item is unchanged, the
\* tracker's session holds the new record and counter and its stats count
\* its log, and the next write that goes through stores that record.
\* (trackPageView runs under a page load; its own write failed when the
\* load left the stored item as it was.)
C19_FailedWriteKeepsRecord ==
    [][ /\ FailedIn({"click", "submit", "scrollTimer"}) => KeptInMemory
        /\ FailedIn({"load"}) /\ stored' = stored => KeptInMemory
        /\ PersistsLater
      ]_vars

\* C19: for trackClick, trackFormSubmit and a scroll update the above
\* holds; when the write of trackPageView fails the stored item is unchanged
\* as well, but the exception leaves the constructor, no tracker exists, and
\* the page view is in no session.
C19_FailedWriteKeepsRecordInHandlers ==
    [][ /\ FailedIn({"click", "submit", "scrollTimer"}) => KeptInMemory
        /\ FailedIn({"load"}) => /\ ~alive'[lastOp'.tab]
                                 /\ sessionData'[lastOp'.tab] = NoSession
        /\ PersistsLater
      ]_vars

\* C19 witness: the write of a submission failed: the tracker's log has the
\* submission, the stored log ends with the click before it
C19_Witness ==
    /\ lastOp.op = "submit" /\ lastOp.threw
    /\ failuresLeft < MaxFailures
    /\ Len(Current.activities) = 3
    /\ IsSubmit(Current.activities[3])
    /\ IsSession(stored)
    /\ StoredSession.activities = SubSeq(Current.activities, 1, 2)
    /\ StoredSession.stats.formsSubmitted = 0
    /\ Current.stats.formsSubmitted = 1


\* C20: with two trackers on one storage key, every write stores the
\* whole session of the tracker that wrote, as that tracker holds it; the
\* other tracker's session is not touched; and the stats of the stored
\* session count its own log.
C20_LastWriterWins ==
    [][ LET i == lastOp'.tab
        IN  /\ stored' # stored =>
                /\ alive'[i]
                /\ stored' = JSONstringify(sessionData'[i])
            /\ \A j \in Tabs \ {i} : sessionData'[j] = sessionData[j]
            /\ IsSession(stored') => Recount(stored'.val.o)
      ]_vars

\* C20 witness: tab B resumed the session and recorded its page view, then
\* tab A's click stored A's session over it: the stored log has the click
\* and not B's page view
C20_Witness ==
    /\ alive["A"] /\ alive["B"]
    /\ lastOp.op = "click" /\ lastOp.tab = "A"
    /\ stored = JSONstringify(sessionData["A"])
    /\ sessionData["B"].sessionId = sessionData["A"].sessionId
    /\ Len(sessionData["B"].activities) = 2
    /\ IsPageView(sessionData["B"].activities[2])
    /\ Len(StoredSession.activities) = 2
    /\ IsClick(StoredSession.activities[2])
    /\ Recount(StoredSession)

====
